---- MODULE Spec2Model ----
(***************************************************************************)
(* State-machine model of strava_kudos_bot.py (class StravaKudosBot):      *)
(* the request wrapper make_api_request with the urllib3 Retry policy of   *)
(* setup_requests_session, refresh_access_token, the sqlite ledger         *)
(* (kudos_given, processed_activities), auto_kudos_cycle and run_forever.  *)
(*                                                                         *)
(* One step of the model is one HTTP exchange (request answered by the     *)
(* remote side) together with everything the process does until it puts    *)
(* the next request on the wire, starts to sleep between passes, or is      *)
(* about to write a kudos-given mark.                                      *)
(***************************************************************************)
EXTENDS Naturals, Integers, Sequences, FiniteSets, TLC

\* ------------------------------------------------------------------ bounds
\* operator activity ids are 1..MaxActs
MaxActs == 2
\* endorser (athlete) ids are 1..MaxUsers
MaxUsers == 2
\* every endorser owns MaxUActs activities
MaxUActs == 2
\* longest activity list / endorser list the remote side returns
MaxList == 2
\* token pairs the token endpoint issues to one process
MaxTok == 1
\* GiveSpec and RemoteSpec observe the endorser activities 1..MaxWatch
MaxWatch == 1

\* ------------------------------------------------------ program constants
\* Retry(total=3)
Total == 3
\* get_athlete_activities_by_id(user_id, limit=2)
UserActivityLimit == 2

\* Retry(status_forcelist=[429, 500, 502, 503, 504]); 500 stands for the 5xx
StatusForcelist == {"429", "500"}
\* urllib3 Retry.DEFAULT_ALLOWED_METHODS, restricted to the methods used
AllowedMethods == {"GET"}

\* a list item without an 'id' key
NoId == 0

OperatorActs == 1..MaxActs
Users == 1..MaxUsers
\* the activities owned by athlete u (ids are unique across athletes)
OwnedBy(u) == {(u - 1) * MaxUActs + k : k \in 1..MaxUActs}
TargetActs == UNION {OwnedBy(u) : u \in Users}

\* lists of at most n items: an item is an id of S or lacks its 'id' key,
\* and no id occurs twice
SeqsUpTo(S, n) ==
    {q \in UNION {[1..k -> S \cup {NoId}] : k \in 0..n} :
        \A i, j \in 1..Len(q) : (i # j /\ q[i] # NoId) => q[i] # q[j]}

Min(a, b) == IF a < b THEN a ELSE b

\* JSON bodies the remote side can send with a 200, by endpoint
Payloads(kind, u) ==
    CASE kind = "activities" -> SeqsUpTo(OperatorActs, MaxList)
      [] kind = "kudos"      -> SeqsUpTo(Users, MaxList)
      [] kind = "uacts"      -> SeqsUpTo(OwnedBy(u), Min(UserActivityLimit, MaxList))
      [] OTHER               -> {<<>>}

\* the method make_api_request is called with, by endpoint
Method(kind) == IF kind = "give" THEN "POST" ELSE "GET"

\* what one HTTP exchange can end in: a status, or a connection failure
\* while connecting / while reading the response
Outcomes == {"200", "401", "403", "422", "429", "500", "connect", "read"}

\* answers of the token endpoint: 200 with both tokens, 200 with only
\* 'access_token', 200 with neither, a non-2xx status, connection failures
TokenOutcomes == {"both", "access_only", "no_tokens", "400", "connect", "read"}

\* load_config: the four environment variables it reads
Credentials == {"client_id", "client_secret", "access_token", "refresh_token"}

\* os.getenv('STRAVA_ACCESS_TOKEN') / os.getenv('STRAVA_REFRESH_TOKEN')
EnvAccess == <<"a", 0>>
EnvRefresh == <<"r", 0>>

VARIABLES
    proc,               \* "running", "exited" (run_forever returned), "failed"
                        \* (an exception left __main__) or "killed"
    conn_open,          \* self.conn is open
    pc,                 \* "idle", "http", "refresh", "record"; "done" when no
                        \* process runs
    access_token,       \* self.access_token
    refresh_token,      \* self.refresh_token
    kudos_given,        \* table kudos_given: set of <<user_id, activity_id>>
    processed_activities, \* table processed_activities: set of activity_id
    activities,         \* auto_kudos_cycle: activities not yet reached
    activity_id,        \* auto_kudos_cycle: activity_id (NoId outside the loop)
    kudos,              \* kudo givers not yet reached
    user_id,            \* user_id
    user_activities,    \* user activities not yet reached
    user_activity_id,   \* user_activity_id
    req,                \* the request on the wire: [kind, left]
    hdr,                \* the bearer token in its Authorization header
    refreshes,          \* token refreshes made by the current call
    tokSeq,             \* remote side: token pairs issued to this process
    sent,               \* last step: request put on the wire ("none" if none)
    slept,              \* last step: the sleeps taken
    resp,               \* last step: the exchange handled: endpoint ep ("api",
                        \* "token"), kind of the call, outcome, body, and the
                        \* refreshes the call had made before it
    ret,                \* last step: [tag, val] returned to auto_kudos_cycle
    exc,                \* last step: exception that ended the pass, or "none"
    wrote,              \* last step: the keys written to the two tables
    pre,                \* last step: the locals of the pass before it
    ever_given,         \* history: every key ever written to kudos_given
    ever_processed,     \* history: every key ever written to processed_activities
    env,                \* the credentials present in the process environment
    clean,              \* observer, this pass: every exchange so far ended in 200
    listed,             \* observer, this pass: ids of the operator activities listed
    processed0,         \* observer: processed_activities when the pass began
    given0,             \* observer: kudos_given when the pass began
    fetched,            \* observer, this pass: activities whose endorsers were fetched
    refetched,          \* observer, this pass: ... fetched more than once
    reached,            \* observer, this pass: pairs listed by an endorser-activities fetch
    tried,              \* observer, this pass: pairs give_kudos was called for
    retried,            \* observer, this pass: ... called for more than once
    remote,             \* observer: activities the remote side holds this bot's kudos on
    window              \* observer: activities whose give succeeded in a process that
                        \* stopped before record_kudos_given

db == <<kudos_given, processed_activities>>
creds == <<access_token, refresh_token>>
locals == <<activities, activity_id, kudos, user_id, user_activities, user_activity_id>>
ghost == <<sent, slept, resp, ret, exc, wrote, pre>>
hist == <<ever_given, ever_processed>>
passObs == <<clean, listed, processed0, given0, fetched, refetched, reached,
             tried, retried>>
remoteObs == <<remote, window>>
vars == <<proc, conn_open, pc, creds, db, locals, req, hdr, refreshes,
          tokSeq, ghost, hist, env, passObs, remoteObs>>

NoReq == [kind |-> "none", left |-> 0]
NoResp == [ep |-> "none", kind |-> "none", out |-> "none", body |-> <<>>,
           refreshes |-> 0]
NoRet == [tag |-> "none", val |-> <<>>]
NoWrite == [given |-> {}, processed |-> {}]
NoPre == [activity_id |-> NoId, kudos |-> <<>>, user_id |-> NoId,
          user_activities |-> <<>>, user_activity_id |-> NoId]

\* ------------------------------------------------------------- the ledger
\* has_given_kudos without the lookup: every pair looks new
has_given_kudos_unchecked(given, u, x) == FALSE

\* has_given_kudos: SELECT 1 FROM kudos_given WHERE user_id = ? AND activity_id = ?
has_given_kudos(given, u, x) == <<u, x>> \in given

\* record_kudos_given: INSERT OR REPLACE INTO kudos_given, commit
record_kudos_given(given, u, x) == given \cup {<<u, x>>}

\* is_activity_processed without the lookup: every activity looks new
is_activity_processed_unchecked(processed, a) == FALSE

\* is_activity_processed: SELECT 1 FROM processed_activities WHERE activity_id = ?
is_activity_processed(processed, a) == a \in processed

\* mark_activity_processed: INSERT OR REPLACE INTO processed_activities, commit
mark_activity_processed(processed, a) == processed \cup {a}

\* ------------------------------------------------- exceptions and handlers
\* Exceptions of the model: "HTTPError" (raise_for_status), "ConnectionError"
\* and "RetryError" (transport retries exhausted), "RefreshFailed" (the plain
\* Exception("Failed to refresh token")), "KeyError" (a missing key).
RequestExceptions == {"HTTPError", "ConnectionError", "RetryError"}

\* auto_kudos_cycle: except Exception
CycleCatches(e) == TRUE

\* run_forever: except Exception
RunForeverCatches(e) == TRUE

\* give_kudos with a bare `except Exception`
GiveKudosCatches_all(e) == TRUE

\* give_kudos with `except requests.exceptions.RequestException`
GiveKudosCatches_request(e) == e \in RequestExceptions

\* give_kudos: except requests.exceptions.HTTPError (any status)
GiveKudosCatches(e) == e = "HTTPError"

\* get_athlete_activities_by_id without its 403 case
ByIdCatches_none(e, status) == FALSE

\* get_athlete_activities_by_id: except HTTPError, status_code == 403
ByIdCatches(e, status) == e = "HTTPError" /\ status = "403"

\* refresh_access_token: except requests.exceptions.RequestException
RefreshCatches(e) == e \in RequestExceptions

\* ------------------------------------------------------ auto_kudos_cycle
\* The loops of auto_kudos_cycle run on a record c of everything the pass
\* can change: pc, kind (the request to send next, "none" if none), the six
\* locals, processed, given, slept, exc, proc and wrote (the keys written).

\* the pass is over: back in run_forever, locals gone
PassOver(c) ==
    [c EXCEPT !.pc = "idle", !.kind = "none",
              !.activities = <<>>, !.activity_id = NoId,
              !.kudos = <<>>, !.user_id = NoId,
              !.user_activities = <<>>, !.user_activity_id = NoId]

\* the for loop over activities ran out: "Cycle complete", then
\* run_forever's time.sleep(interval_minutes * 60)
Complete(c) == [PassOver(c) EXCEPT !.slept = @ \cup {"interval"}]

\* auto_kudos_cycle and run_forever without their except clauses
Abort_fatal(c, e) ==
    [PassOver(c) EXCEPT !.exc = e, !.pc = "done", !.proc = "exited"]

\* exception e raised inside the try block of auto_kudos_cycle
Abort(c, e) ==
    IF CycleCatches(e)
    THEN [PassOver(c) EXCEPT !.exc = e, !.slept = @ \cup {"interval"}]
    ELSE IF RunForeverCatches(e)
    THEN [PassOver(c) EXCEPT !.exc = e, !.slept = @ \cup {"error"}]
    ELSE [PassOver(c) EXCEPT !.exc = e, !.pc = "done", !.proc = "exited"]

RECURSIVE NextActivity(_), NextKudoGiver(_), NextUserActivity(_)

\* for activity in activities: (from the top of the loop)
NextActivity(c) ==
    IF c.activities = <<>> THEN Complete(c)
    ELSE LET a == Head(c.activities)
             d == [c EXCEPT !.activities = Tail(@)]
         IN  IF a = NoId THEN Abort(d, "KeyError")
             ELSE IF is_activity_processed(c.processed, a) THEN NextActivity(d)
             ELSE [d EXCEPT !.activity_id = a, !.pc = "http", !.kind = "kudos"]

\* mark_activity_processed moved into the loop over the endorsers
NextKudoGiver_early(c) ==
    IF c.kudos = <<>>
    THEN NextActivity([c EXCEPT
             !.processed = mark_activity_processed(@, c.activity_id),
             !.wrote.processed = @ \cup {c.activity_id},
             !.user_id = NoId, !.user_activity_id = NoId])
    ELSE LET u == Head(c.kudos)
             d == [c EXCEPT !.kudos = Tail(@),
                            !.processed = mark_activity_processed(@, c.activity_id),
                            !.wrote.processed = @ \cup {c.activity_id}]
         IN  IF u = NoId THEN Abort(d, "KeyError")
             ELSE [d EXCEPT !.user_id = u, !.user_activity_id = NoId,
                            !.pc = "http", !.kind = "uacts"]

\* for kudo_giver in kudos: (from the top of the loop), and
\* mark_activity_processed(activity_id) when the loop runs out
NextKudoGiver(c) ==
    IF c.kudos = <<>>
    THEN NextActivity([c EXCEPT
             !.processed = mark_activity_processed(@, c.activity_id),
             !.wrote.processed = @ \cup {c.activity_id},
             !.user_id = NoId, !.user_activity_id = NoId])
    ELSE LET u == Head(c.kudos)
             d == [c EXCEPT !.kudos = Tail(@)]
         IN  IF u = NoId THEN Abort(d, "KeyError")
             ELSE [d EXCEPT !.user_id = u, !.user_activity_id = NoId,
                            !.pc = "http", !.kind = "uacts"]

\* for user_activity in user_activities: (from the top of the loop)
NextUserActivity(c) ==
    IF c.user_activities = <<>> THEN NextKudoGiver(c)
    ELSE LET x == Head(c.user_activities)
             d == [c EXCEPT !.user_activities = Tail(@)]
         IN  IF x = NoId THEN Abort(d, "KeyError")
             ELSE IF has_given_kudos(c.given, c.user_id, x) THEN NextUserActivity(d)
             ELSE [d EXCEPT !.user_activity_id = x, !.pc = "http", !.kind = "give"]

\* the if branch without record_kudos_given
AfterGiveTrue_unrecorded(c) ==
    NextUserActivity([c EXCEPT !.slept = @ \cup {"pace"}])

\* give_kudos returned True: record_kudos_given, time.sleep(2), next candidate
AfterGiveTrue(c) ==
    NextUserActivity([c EXCEPT
        !.given = record_kudos_given(@, c.user_id, c.user_activity_id),
        !.wrote.given = @ \cup {<<c.user_id, c.user_activity_id>>},
        !.slept = @ \cup {"pace"}])

\* the else branch doing what the if branch does
AfterGiveFalse_marking(c) == AfterGiveTrue(c)

\* give_kudos returned False: "Could not give kudos", next candidate
AfterGiveFalse(c) == NextUserActivity(c)

\* the callee of auto_kudos_cycle returned val / raised e (status: the HTTP
\* status of an HTTPError) for the request of the given kind
\* result: [c: the pass record, ret: what the callee returned]
Returned(c, kind, val) ==
    CASE kind = "activities" ->
            [c |-> NextActivity([c EXCEPT !.activities = val]),
             ret |-> [tag |-> "value", val |-> val]]
      [] kind = "kudos" ->
            [c |-> NextKudoGiver([c EXCEPT !.kudos = val]),
             ret |-> [tag |-> "value", val |-> val]]
      [] kind = "uacts" ->
            [c |-> NextUserActivity([c EXCEPT !.user_activities = val]),
             ret |-> [tag |-> "value", val |-> val]]
      [] OTHER ->
            \* give_kudos: True; the mark is written in the next step
            [c |-> [c EXCEPT !.pc = "record", !.kind = "none"],
             ret |-> [tag |-> "True", val |-> <<>>]]

\* give_kudos returning True from its except clause
Raised_true(c, kind, e, status) ==
    CASE kind = "uacts" /\ ByIdCatches(e, status) ->
            [c |-> NextUserActivity([c EXCEPT !.user_activities = <<>>]),
             ret |-> [tag |-> "value", val |-> <<>>]]
      [] kind = "give" /\ GiveKudosCatches(e) ->
            [c |-> [c EXCEPT !.pc = "record", !.kind = "none"],
             ret |-> [tag |-> "True", val |-> <<>>]]
      [] OTHER ->
            [c |-> Abort(c, e), ret |-> [tag |-> "raise", val |-> <<>>]]

Raised(c, kind, e, status) ==
    CASE kind = "uacts" /\ ByIdCatches(e, status) ->
            [c |-> NextUserActivity([c EXCEPT !.user_activities = <<>>]),
             ret |-> [tag |-> "value", val |-> <<>>]]
      [] kind = "give" /\ GiveKudosCatches(e) ->
            [c |-> AfterGiveFalse(c), ret |-> [tag |-> "False", val |-> <<>>]]
      [] OTHER ->
            [c |-> Abort(c, e), ret |-> [tag |-> "raise", val |-> <<>>]]

\* ------------------------------------------------- the transport (urllib3)
\* Retry.increment / is_retry: a connect error is retried for every method,
\* a read error and a status of the forcelist only for an allowed method
IsRetry(out, method) ==
    \/ out = "connect"
    \/ out = "read" /\ method \in AllowedMethods
    \/ out \in StatusForcelist /\ method \in AllowedMethods

\* what session.get/post does with the outcome of one exchange when `left`
\* retries remain: "retry" (send again), raise "ConnectionError" or
\* "RetryError", or hand the "response" to the caller
Transport(out, method, left) ==
    IF IsRetry(out, method)
    THEN IF left > 0 THEN "retry"
         ELSE IF out \in {"connect", "read"} THEN "ConnectionError"
         ELSE "RetryError"
    ELSE IF out = "read" THEN "ConnectionError"
    ELSE "response"

\* response.json() if response.content else {}: the lists of the model are
\* the parsed bodies, an empty body iterates like an empty list
Json(body) == body

\* headers built once, from the token of the environment
Headers_stale(tok) == EnvAccess

\* the Authorization header of a request issued when self.access_token = tok
Headers(tok) == tok

\* ----------------------------------------------------- refresh_access_token
\* The token endpoint answered `out` (after the transport); cur/new are the
\* <<access, refresh>> pairs held / returned.  Result: the pair held
\* afterwards and "True", "False" or the exception that escapes.
refresh_access_token(out, cur, new) ==
    CASE out = "both" ->
            [tokens |-> new, result |-> "True"]
      [] out = "access_only" ->
            \* self.access_token is assigned before tokens['refresh_token'] raises
            [tokens |-> <<new[1], cur[2]>>, result |-> "KeyError"]
      [] out = "no_tokens" ->
            [tokens |-> cur, result |-> "KeyError"]
      [] out = "400" ->
            [tokens |-> cur,
             result |-> IF RefreshCatches("HTTPError") THEN "False" ELSE "HTTPError"]
      [] OTHER ->
            [tokens |-> cur,
             result |-> IF RefreshCatches("ConnectionError") THEN "False"
                        ELSE "ConnectionError"]

\* ------------------------------------------------------------ the actions
Ctx ==
    [pc |-> pc, kind |-> req.kind,
     activities |-> activities, activity_id |-> activity_id,
     kudos |-> kudos, user_id |-> user_id,
     user_activities |-> user_activities, user_activity_id |-> user_activity_id,
     processed |-> processed_activities, given |-> kudos_given,
     slept |-> {}, exc |-> "none", proc |-> proc, wrote |-> NoWrite]

\* the state after the pass code ran to c; a request it asks for is a new
\* call of make_api_request (headers built from the access token tok held)
ApplyPass(c, tok) ==
    /\ pc' = c.pc
    /\ proc' = c.proc
    /\ conn_open' = (c.proc = "running")
    /\ activities' = c.activities
    /\ activity_id' = c.activity_id
    /\ kudos' = c.kudos
    /\ user_id' = c.user_id
    /\ user_activities' = c.user_activities
    /\ user_activity_id' = c.user_activity_id
    /\ processed_activities' = c.processed
    /\ kudos_given' = c.given
    /\ slept' = c.slept
    /\ exc' = c.exc
    /\ wrote' = c.wrote
    /\ ever_given' = ever_given \cup c.wrote.given
    /\ ever_processed' = ever_processed \cup c.wrote.processed
    /\ sent' = c.kind
    /\ req' = IF c.kind = "none" THEN NoReq ELSE [kind |-> c.kind, left |-> Total]
    /\ hdr' = Headers(tok)
    /\ refreshes' = 0

Apply(c) ==
    /\ ApplyPass(c, access_token)
    /\ UNCHANGED creds

Init ==
    /\ proc = "running"
    /\ conn_open = TRUE
    /\ pc = "idle"
    /\ access_token = EnvAccess
    /\ refresh_token = EnvRefresh
    /\ kudos_given = {}
    /\ processed_activities = {}
    /\ activities = <<>>
    /\ activity_id = NoId
    /\ kudos = <<>>
    /\ user_id = NoId
    /\ user_activities = <<>>
    /\ user_activity_id = NoId
    /\ req = NoReq
    /\ hdr = Headers(EnvAccess)
    /\ refreshes = 0
    /\ tokSeq = 0
    /\ sent = "none"
    /\ slept = {}
    /\ resp = NoResp
    /\ ret = NoRet
    /\ exc = "none"
    /\ wrote = NoWrite
    /\ pre = NoPre
    /\ ever_given = {}
    /\ ever_processed = {}
    /\ env = Credentials
    /\ clean = TRUE
    /\ listed = {}
    /\ processed0 = {}
    /\ given0 = {}
    /\ fetched = {}
    /\ refetched = {}
    /\ reached = {}
    /\ tried = {}
    /\ retried = {}
    /\ remote = {}
    /\ window = {}

\* the locals of the pass
Locals ==
    [activity_id |-> activity_id, kudos |-> kudos, user_id |-> user_id,
     user_activities |-> user_activities, user_activity_id |-> user_activity_id]

\* run_forever calls auto_kudos_cycle, which calls get_athlete_activities
StartPass ==
    /\ proc = "running"
    /\ pc = "idle"
    /\ Apply([Ctx EXCEPT !.pc = "http", !.kind = "activities"])
    /\ resp' = NoResp
    /\ ret' = NoRet
    /\ pre' = NoPre
    /\ UNCHANGED <<tokSeq, env>>

\* the transport sends the request again (backoff sleep first)
TransportRetry(ep, out) ==
    /\ req' = [req EXCEPT !.left = @ - 1]
    /\ sent' = IF ep = "token" THEN "token" ELSE req.kind
    /\ slept' = {"backoff"}
    /\ resp' = [ep |-> ep, kind |-> req.kind, out |-> out, body |-> <<>>,
                                  refreshes |-> refreshes]
    /\ ret' = NoRet
    /\ exc' = "none"
    /\ wrote' = NoWrite
    /\ pre' = Locals
    /\ UNCHANGED <<proc, conn_open, pc, creds, db, hist, locals, hdr, refreshes,
                   tokSeq>>

\* one exchange of the request on the wire, answered with `out` (and `body`
\* when out is 200), and make_api_request's reaction to it
Exchange(out, body) ==
    /\ proc = "running"
    /\ pc = "http"
    /\ pre' = Locals
    /\ UNCHANGED env
    /\ LET kind == req.kind
           t == Transport(out, Method(kind), req.left)
       IN  CASE t = "retry" ->
                     TransportRetry("api", out)
                [] t \in {"ConnectionError", "RetryError"} ->
                     \* except RequestException: log, raise
                     LET r == Raised(Ctx, kind, t, "none")
                     IN  /\ Apply(r.c)
                         /\ ret' = r.ret
                         /\ resp' = [ep |-> "api", kind |-> kind, out |-> out, body |-> <<>>,
                                  refreshes |-> refreshes]
                         /\ UNCHANGED tokSeq
                [] t = "response" /\ out = "429" ->
                     \* time.sleep(60); return self.make_api_request(...)
                     /\ req' = [kind |-> kind, left |-> Total]
                     /\ hdr' = Headers(access_token)
                     /\ sent' = kind
                     /\ slept' = {"rate"}
                     /\ wrote' = NoWrite
                     /\ resp' = [ep |-> "api", kind |-> kind, out |-> out, body |-> <<>>,
                                  refreshes |-> refreshes]
                     /\ ret' = NoRet
                     /\ exc' = "none"
                     /\ UNCHANGED <<proc, conn_open, pc, creds, db, hist, locals,
                                    refreshes, tokSeq>>
                [] t = "response" /\ out = "401" ->
                     \* refresh_access_token posts to the token endpoint
                     /\ pc' = "refresh"
                     /\ req' = [kind |-> kind, left |-> Total]
                     /\ sent' = "token"
                     /\ slept' = {}
                     /\ wrote' = NoWrite
                     /\ resp' = [ep |-> "api", kind |-> kind, out |-> out, body |-> <<>>,
                                  refreshes |-> refreshes]
                     /\ ret' = NoRet
                     /\ exc' = "none"
                     /\ UNCHANGED <<proc, conn_open, creds, db, hist, locals, hdr,
                                    refreshes, tokSeq>>
                [] t = "response" /\ out = "200" ->
                     LET r == Returned(Ctx, kind, Json(body))
                     IN  /\ Apply(r.c)
                         /\ ret' = r.ret
                         /\ resp' = [ep |-> "api", kind |-> kind, out |-> out, body |-> body,
                                  refreshes |-> refreshes]
                         /\ UNCHANGED tokSeq
                [] OTHER ->
                     \* response.raise_for_status()
                     LET r == Raised(Ctx, kind, "HTTPError", out)
                     IN  /\ Apply(r.c)
                         /\ ret' = r.ret
                         /\ resp' = [ep |-> "api", kind |-> kind, out |-> out, body |-> <<>>,
                                  refreshes |-> refreshes]
                         /\ UNCHANGED tokSeq

\* one exchange with the token endpoint, answered with `out`, and what
\* refresh_access_token and make_api_request do with it
RefreshExchange(out) ==
    /\ proc = "running"
    /\ pc = "refresh"
    /\ pre' = Locals
    /\ UNCHANGED env
    /\ out \in {"both", "access_only"} => tokSeq < MaxTok
    /\ LET kind == req.kind
           tout == IF out \in {"connect", "read"} THEN out ELSE "200"
           t == Transport(tout, "POST", req.left)
           new == <<(<<"a", tokSeq + 1>>), (<<"r", tokSeq + 1>>)>>
           f == refresh_access_token(out, <<access_token, refresh_token>>, new)
       IN  IF t = "retry"
           THEN TransportRetry("token", out)
           ELSE /\ access_token' = f.tokens[1]
                /\ refresh_token' = f.tokens[2]
                /\ tokSeq' = IF out \in {"both", "access_only"} THEN tokSeq + 1 ELSE tokSeq
                /\ resp' = [ep |-> "token", kind |-> kind, out |-> out, body |-> <<>>,
                                  refreshes |-> refreshes]
                /\ IF f.result = "True"
                   THEN \* return self.make_api_request(url, method, data)
                        /\ pc' = "http"
                        /\ req' = [kind |-> kind, left |-> Total]
                        /\ hdr' = Headers(f.tokens[1])
                        /\ refreshes' = refreshes + 1
                        /\ sent' = kind
                        /\ slept' = {}
                        /\ ret' = NoRet
                        /\ exc' = "none"
                        /\ wrote' = NoWrite
                        /\ UNCHANGED <<proc, conn_open, db, hist, locals>>
                   ELSE LET e == IF f.result = "False" THEN "RefreshFailed" ELSE f.result
                            r == Raised(Ctx, kind, e, "none")
                        IN  /\ ApplyPass(r.c, f.tokens[1])
                            /\ ret' = r.ret

\* give_kudos returned True: record_kudos_given, sleep, on to the next request
Record ==
    /\ proc = "running"
    /\ pc = "record"
    /\ Apply(AfterGiveTrue(Ctx))
    /\ resp' = NoResp
    /\ ret' = NoRet
    /\ pre' = Locals
    /\ UNCHANGED <<tokSeq, env>>

\* the process is gone: nothing of its memory is left
Gone ==
    /\ pc' = "done"
    /\ activities' = <<>>
    /\ activity_id' = NoId
    /\ kudos' = <<>>
    /\ user_id' = NoId
    /\ user_activities' = <<>>
    /\ user_activity_id' = NoId
    /\ req' = NoReq
    /\ refreshes' = 0
    /\ sent' = "none"
    /\ slept' = {}
    /\ resp' = NoResp
    /\ ret' = NoRet
    /\ exc' = "none"
    /\ wrote' = NoWrite
    /\ pre' = NoPre
    /\ UNCHANGED <<creds, hdr, db, hist, tokSeq, env>>

\* run_forever: the try block holds auto_kudos_cycle and the interval sleep;
\* the time.sleep(60) of the `except Exception` clause is outside of it
InTryBlock == ~ (pc = "idle" /\ "error" \in slept)

\* __main__ without its try/finally
Interrupt_unclean ==
    /\ proc = "running"
    /\ proc' = IF InTryBlock THEN "exited" ELSE "failed"
    /\ conn_open' = conn_open
    /\ Gone

\* KeyboardInterrupt in run_forever.  In the try block: `except
\* KeyboardInterrupt: break`, run_forever returns; in the except clause: it
\* leaves run_forever as an exception.  Either way the finally of __main__
\* runs cleanup(), which closes self.conn
Interrupt ==
    /\ proc = "running"
    /\ proc' = IF InTryBlock THEN "exited" ELSE "failed"
    /\ conn_open' = FALSE
    /\ Gone

\* the process is killed (no handler runs)
Kill ==
    /\ proc = "running"
    /\ proc' = "killed"
    /\ conn_open' = conn_open
    /\ Gone

\* proc of a process that has ended: run_forever returned ("exited"), an
\* exception left __main__ ("failed"), or it was killed
Down == {"exited", "failed", "killed"}

\* load_config with a test of the two tokens only
ConfigComplete_tokens(e) == {"access_token", "refresh_token"} \subseteq e

\* load_config: all([client_id, client_secret, access_token, refresh_token])
ConfigComplete(e) == e = Credentials

\* a new process: __init__ (setup_database, load_config), then run_forever
Restart ==
    /\ proc \in Down
    /\ ConfigComplete(env)
    /\ proc' = "running"
    /\ conn_open' = TRUE
    /\ pc' = "idle"
    /\ access_token' = EnvAccess
    /\ refresh_token' = EnvRefresh
    /\ hdr' = Headers(EnvAccess)
    /\ tokSeq' = 0
    /\ UNCHANGED <<db, hist, locals, req, refreshes, ghost, env>>

\* a new process whose load_config raises ValueError: __init__ fails after
\* setup_database opened self.conn, `bot = StravaKudosBot()` is outside the
\* try/finally of __main__, so neither run_forever nor cleanup is called
StartupFails ==
    /\ proc \in Down
    /\ ~ ConfigComplete(env)
    /\ proc' = "failed"
    /\ conn_open' = TRUE
    /\ UNCHANGED <<pc, creds, db, locals, req, hdr, refreshes, tokSeq, ghost,
                   hist, env>>

\* while no process runs, the operator changes the environment
SetEnv(e) ==
    /\ proc \in Down
    /\ e # env
    /\ env' = e
    /\ UNCHANGED <<proc, conn_open, pc, creds, db, locals, req, hdr, refreshes,
                   tokSeq, ghost, hist>>

AnyBody == Payloads(req.kind, user_id)

\* the observers stand still
Unobserved == UNCHANGED <<passObs, remoteObs>>

Next ==
    \/ StartPass /\ Unobserved
    \/ \E out \in Outcomes : \E body \in (IF out = "200" THEN AnyBody ELSE {<<>>}) :
          Exchange(out, body) /\ Unobserved
    \/ \E out \in TokenOutcomes : RefreshExchange(out) /\ Unobserved
    \/ Record /\ Unobserved
    \/ Interrupt /\ Unobserved
    \/ Kill /\ Unobserved
    \/ Restart /\ Unobserved
    \/ StartupFails /\ Unobserved
    \/ \E e \in SUBSET Credentials : SetEnv(e) /\ Unobserved

Spec == Init /\ [][Next]_vars

TypeOK ==
    /\ proc \in {"running"} \cup Down
    /\ env \subseteq Credentials
    /\ pc \in {"idle", "http", "refresh", "record", "done"}
    /\ kudos_given \subseteq (Users \X TargetActs)
    /\ processed_activities \subseteq OperatorActs
    /\ req.left \in 0..Total
    /\ tokSeq \in 0..MaxTok

\* ---------------------------------------------------------- the observers
\* The observers record what a pass has done so far and what the remote side
\* holds.  Under Spec they stand still; PassSpec and RemoteSpec run the same
\* actions and let them follow.

\* the ids of a list (items without 'id' left out)
Ids(q) == {q[i] : i \in 1..Len(q)} \ {NoId}

\* the last step called the function that sends a request of this kind
\* (a request re-sent by the transport or re-issued after a 429 or a token
\* refresh belongs to the call that sent it first)
Called(kind) == sent = kind /\ (ret.tag # "none" \/ resp = NoResp)

\* auto_kudos_cycle begins
PassBegin ==
    /\ clean' = TRUE
    /\ listed' = {}
    /\ processed0' = processed_activities
    /\ given0' = kudos_given
    /\ fetched' = {}
    /\ refetched' = {}
    /\ reached' = {}
    /\ tried' = {}
    /\ retried' = {}

\* the endorser activities GiveSpec and RemoteSpec observe
Watched == 1..MaxWatch

\* the calls of give_kudos of the pass for the activities of W
GiveWatch(W) ==
    LET call == Called("give")' /\ user_activity_id' \in W
        p == <<user_id', user_activity_id'>>
    IN  /\ tried' = IF call THEN tried \cup {p} ELSE tried
        /\ retried' = IF call /\ p \in tried THEN retried \cup {p} ELSE retried

\* a step of the pass; the pass is followed as long as every exchange of it
\* ended in 200
PassWatch ==
    /\ clean' = (clean /\ (resp' = NoResp \/ (resp'.ep = "api" /\ resp'.out = "200")))
    /\ IF clean'
       THEN /\ listed' = IF resp'.kind = "activities" /\ resp'.out = "200"
                         THEN Ids(resp'.body) ELSE listed
            /\ reached' = IF resp'.kind = "uacts" /\ resp'.out = "200"
                          THEN reached \cup {<<user_id, x>> : x \in Ids(resp'.body)}
                          ELSE reached
            /\ fetched' = IF Called("kudos")'
                          THEN fetched \cup {activity_id'} ELSE fetched
            /\ refetched' = IF Called("kudos")' /\ activity_id' \in fetched
                            THEN refetched \cup {activity_id'} ELSE refetched
            /\ GiveWatch(TargetActs)
            /\ UNCHANGED <<processed0, given0>>
       ELSE /\ listed' = {}
            /\ processed0' = {}
            /\ given0' = {}
            /\ fetched' = {}
            /\ refetched' = {}
            /\ reached' = {}
            /\ tried' = {}
            /\ retried' = {}

\* the process is gone, and the pass with it
PassGone ==
    /\ clean' = TRUE
    /\ listed' = {}
    /\ processed0' = {}
    /\ given0' = {}
    /\ fetched' = {}
    /\ refetched' = {}
    /\ reached' = {}
    /\ tried' = {}
    /\ retried' = {}

PassNext ==
    \/ StartPass /\ PassBegin /\ UNCHANGED remoteObs
    \/ \E out \in Outcomes : \E body \in (IF out = "200" THEN AnyBody ELSE {<<>>}) :
          Exchange(out, body) /\ PassWatch /\ UNCHANGED remoteObs
    \/ \E out \in TokenOutcomes :
          RefreshExchange(out) /\ PassWatch /\ UNCHANGED remoteObs
    \/ Record /\ PassWatch /\ UNCHANGED remoteObs
    \/ Interrupt /\ PassGone /\ UNCHANGED remoteObs
    \/ Kill /\ PassGone /\ UNCHANGED remoteObs
    \/ Restart /\ Unobserved
    \/ StartupFails /\ Unobserved
    \/ \E e \in SUBSET Credentials : SetEnv(e) /\ Unobserved

\* the program with the observers of the pass
PassSpec == Init /\ [][PassNext]_vars

\* the pass begins / the process is gone: no give_kudos call so far
GiveNone ==
    /\ tried' = {}
    /\ retried' = {}
    /\ UNCHANGED <<clean, listed, processed0, given0, fetched, refetched,
                   reached, remoteObs>>

GiveNext ==
    \/ StartPass /\ GiveNone
    \/ \E out \in Outcomes : \E body \in (IF out = "200" THEN AnyBody ELSE {<<>>}) :
          /\ Exchange(out, body)
          /\ GiveWatch(Watched)
          /\ UNCHANGED <<clean, listed, processed0, given0, fetched, refetched,
                         reached, remoteObs>>
    \/ \E out \in TokenOutcomes :
          /\ RefreshExchange(out)
          /\ GiveWatch(Watched)
          /\ UNCHANGED <<clean, listed, processed0, given0, fetched, refetched,
                         reached, remoteObs>>
    \/ /\ Record
       /\ GiveWatch(Watched)
       /\ UNCHANGED <<clean, listed, processed0, given0, fetched, refetched,
                      reached, remoteObs>>
    \/ Interrupt /\ GiveNone
    \/ Kill /\ GiveNone
    \/ Restart /\ Unobserved
    \/ StartupFails /\ Unobserved
    \/ \E e \in SUBSET Credentials : SetEnv(e) /\ Unobserved

\* the program with the observer of the give_kudos calls of the pass
GiveSpec == Init /\ [][GiveNext]_vars

\* the remote side handles the exchange that ends in `out`: a give-kudos
\* POST answered 200 has set the kudos; one whose response is lost while it
\* is read may have set it or not
RemoteWatch(out) ==
    /\ remote' \in
          IF req.kind # "give" \/ user_activity_id \notin Watched THEN {remote}
          ELSE IF out = "200" THEN {remote \cup {user_activity_id}}
          ELSE IF out = "read" THEN {remote, remote \cup {user_activity_id}}
          ELSE {remote}
    /\ window' = window

\* the process stops: between give_kudos returning True and
\* record_kudos_given, the give of user_activity_id stays without a mark
WindowWatch ==
    /\ window' = IF pc = "record" /\ user_activity_id \in Watched
                 THEN window \cup {user_activity_id} ELSE window
    /\ remote' = remote

RemoteNext ==
    \/ StartPass /\ Unobserved
    \/ \E out \in Outcomes : \E body \in (IF out = "200" THEN AnyBody ELSE {<<>>}) :
          Exchange(out, body) /\ RemoteWatch(out) /\ UNCHANGED passObs
    \/ \E out \in TokenOutcomes : RefreshExchange(out) /\ Unobserved
    \/ Record /\ Unobserved
    \/ Interrupt /\ WindowWatch /\ UNCHANGED passObs
    \/ Kill /\ WindowWatch /\ UNCHANGED passObs
    \/ Restart /\ Unobserved
    \/ StartupFails /\ Unobserved
    \/ \E e \in SUBSET Credentials : SetEnv(e) /\ Unobserved

\* the program with the observers of the remote side
RemoteSpec == Init /\ [][RemoteNext]_vars

\* ------------------------------------------------------------- the claims
\* a list holds an item without 'id'
Malformed(q) == \E i \in 1..Len(q) : q[i] = NoId

\* a request of the given kind is on the wire
OnWire(kind) == pc = "http" /\ req.kind = kind

\* C1: a kudos-given mark, once committed, is in the ledger in every later
\* state (restarts included), and no give-kudos POST is on the wire for a
\* pair (E, X) that ever got a mark.
C1_MarkedPairNeverGivenAgain ==
    /\ ever_given \subseteq kudos_given
    /\ req.kind = "give" => <<user_id, user_activity_id>> \notin ever_given

\* C1 witness: in a later pass the activities of an endorser were fetched,
\* the first of them holds a mark and was passed over, and the give on the
\* wire is for the second
C1_Witness ==
    /\ resp.kind = "uacts"
    /\ resp.out = "200"
    /\ Len(resp.body) = 2
    /\ <<user_id, resp.body[1]>> \in kudos_given
    /\ OnWire("give")
    /\ user_activity_id = resp.body[2]

C3_RateLimitNeverSurfaces ==
    (resp.ep = "api" /\ resp.out = "429") => (ret.tag # "raise" /\ exc = "none")

\* the token pair the token endpoint issued last to this process
Issued == <<(<<"a", tokSeq>>), (<<"r", tokSeq>>)>>

\* C4: when a call got 401, refreshed with success and its re-issued
\* request got 200, the call returned the body of that 200 and the
\* credential set holds the access and refresh token the refresh returned;
\* the re-issued request, like every later request of the process, carries
\* the access token held, which is not the one of before the refresh.
C4_RefreshThenOk ==
    /\ pc = "http" => hdr = access_token
    /\ (pc = "http" /\ refresh_token # EnvRefresh) => hdr # EnvAccess
    /\ (pc = "http" /\ refreshes > 0) =>
          (<<access_token, refresh_token>> = Issued /\ hdr # EnvAccess)
    /\ (resp.ep = "api" /\ resp.out = "200" /\ resp.refreshes > 0) =>
          /\ ret.tag \in {"value", "True"}
          /\ ret.val = resp.body
          /\ <<access_token, refresh_token>> = Issued
          /\ access_token # EnvAccess

\* C4 witness: a call that refreshed has returned the body of a 200
C4_Witness ==
    /\ resp.ep = "api"
    /\ resp.out = "200"
    /\ resp.refreshes = 1
    /\ resp.kind = "activities"
    /\ ret.tag = "value"
    /\ ret.val = resp.body
    /\ Len(resp.body) = 2
    /\ access_token = <<"a", 1>>
    /\ refresh_token = <<"r", 1>>

\* the token endpoint's answer made refresh_access_token return False
RefreshFailedNow ==
    /\ resp.ep = "token"
    /\ resp.out \in {"400", "connect", "read"}
    /\ sent # "token"

\* C5: when the token refresh after a 401 fails (non-2xx answer, or a
\* connection failure the transport gives up on), for whichever request of
\* the pass, the pass ends in that step: no request is sent, no mark of
\* either kind is written (the activity in progress stays unprocessed), and
\* the process keeps running.
C5_FailedRefreshEndsPass ==
    RefreshFailedNow =>
        /\ exc = "RefreshFailed"
        /\ ret.tag = "raise"
        /\ pc = "idle"
        /\ sent = "none"
        /\ wrote = NoWrite
        /\ ~ is_activity_processed(processed_activities, pre.activity_id)
        /\ proc = "running"

\* C5 witness: the refresh failed inside a give-kudos call and ended the pass
C5_Witness ==
    /\ RefreshFailedNow
    /\ resp.kind = "give"
    /\ pre.activity_id # NoId
    /\ exc = "RefreshFailed"
    /\ pc = "idle"

\* C6: refresh_access_token is all-or-nothing: after an answer of the token
\* endpoint either the refresh succeeded (the request is re-issued) and both
\* tokens are the ones returned, or both tokens are unchanged.
C6_RefreshAllOrNothing ==
    [][ (pc = "refresh" /\ resp'.ep = "token") =>
          \/ /\ pc' = "http"
             /\ refreshes' = refreshes + 1
             /\ <<access_token', refresh_token'>> = Issued'
          \/ /\ ~ (pc' = "http" /\ refreshes' = refreshes + 1)
             /\ creds' = creds ]_vars

\* C7: when the endorser-activities fetch ends in 403, the endorser
\* contributes nothing (empty list, no give, no mark), nothing is raised by
\* the 403, and the pass goes on: to the next endorser if there is one, else
\* the current activity is marked processed.
C7_ForbiddenEndorserSkipped ==
    (resp.ep = "api" /\ resp.kind = "uacts" /\ resp.out = "403") =>
        /\ ret = [tag |-> "value", val |-> <<>>]
        /\ wrote.given = {}
        /\ ~ OnWire("give")
        /\ IF pre.kudos = <<>>
           THEN /\ pre.activity_id \in wrote.processed
                /\ is_activity_processed(processed_activities, pre.activity_id)
                /\ exc \in {"none", "KeyError"}
           ELSE IF Head(pre.kudos) = NoId
           THEN exc = "KeyError" /\ wrote = NoWrite
           ELSE /\ OnWire("uacts")
                /\ user_id = Head(pre.kudos)
                /\ activity_id = pre.activity_id
                /\ exc = "none"

\* C7 witness: a 403 for one endorser, the next endorser's activities are
\* being fetched
C7_Witness ==
    /\ resp.kind = "uacts"
    /\ resp.out = "403"
    /\ OnWire("uacts")
    /\ user_id # pre.user_id
    /\ exc = "none"

\* the next candidate of endorser u in the list q: the first item without a
\* mark; NoId if an item without 'id' or the end of q comes first
RECURSIVE NextCandidate(_, _, _)
NextCandidate(q, u, given) ==
    IF q = <<>> \/ Head(q) = NoId THEN NoId
    ELSE IF <<u, Head(q)>> \in given THEN NextCandidate(Tail(q), u, given)
    ELSE Head(q)

\* give_kudos returned False and the pass went on to the next candidate
GiveFalseAndOn ==
    /\ ret.tag = "False"
    /\ wrote.given = {}
    /\ slept \cap {"pace", "rate", "backoff"} = {}
    /\ exc \in {"none", "KeyError"}
    /\ LET n == NextCandidate(pre.user_activities, pre.user_id, kudos_given)
       IN  n # NoId =>
              /\ OnWire("give")
              /\ user_id = pre.user_id
              /\ user_activity_id = n
              /\ exc = "none"

\* C8: when a give-kudos call ends in 422, give_kudos returns False without
\* raising, the ledger is unchanged, no pause is taken, and the pass goes to
\* the next candidate activity.
C8_AlreadyGiven ==
    (resp.ep = "api" /\ resp.kind = "give" /\ resp.out = "422") => GiveFalseAndOn

\* C8 witness: a 422 for one candidate, the give for the next is on the wire
C8_Witness ==
    /\ resp.kind = "give"
    /\ resp.out = "422"
    /\ ret.tag = "False"
    /\ OnWire("give")
    /\ user_activity_id # pre.user_activity_id

\* C9: no failure of a give-kudos attempt ends the pass: give_kudos never
\* raises.
C9_FailedGiveNeverAborts ==
    resp.kind = "give" => (ret.tag # "raise" /\ exc \in {"none", "KeyError"})

\* the give-kudos attempt ended without an HTTP response to judge: in a
\* connection failure the transport gave up on, or in a token refresh that
\* did not succeed
GiveBroken ==
    /\ resp.kind = "give"
    /\ sent \notin {"give", "token"}
    /\ \/ resp.ep = "api" /\ resp.out \in {"connect", "read"}
       \/ resp.ep = "token" /\ resp.out # "both"

\* C9 amended: a give-kudos attempt that ends in an HTTP error status
\* (403, 422, 5xx) returns False and the pass goes to the next candidate;
\* give_kudos raises, ending the pass, exactly when the attempt ends in a
\* connection failure the transport gives up on or in a token refresh that
\* did not succeed.
C9_GiveFailureHandling ==
    /\ (resp.ep = "api" /\ resp.kind = "give" /\ resp.out \in {"403", "422", "500"})
          => GiveFalseAndOn
    /\ GiveBroken =>
          /\ ret.tag = "raise"
          /\ exc \in {"ConnectionError", "RefreshFailed", "KeyError"}
          /\ pc = "idle"
          /\ wrote = NoWrite
    /\ (resp.kind = "give" /\ ret.tag = "raise") => GiveBroken

\* C9 witness: a give that ended in a 500 returned False and the pass went
\* on with the next candidate
C9_Witness ==
    /\ resp.kind = "give"
    /\ resp.out = "500"
    /\ ret.tag = "False"
    /\ OnWire("give")
    /\ user_activity_id # pre.user_activity_id

\* C9, second case: a give ended the pass with a connection failure
C9_AbortReached ==
    /\ resp.kind = "give"
    /\ resp.out = "connect"
    /\ exc = "ConnectionError"

\* run_forever: time.sleep returns and the loop calls auto_kudos_cycle again
LiveSpec == Init /\ [][Next]_vars /\ WF_vars(StartPass /\ Unobserved)

\* C10: an error raised during a pass never ends the process: the pass ends
\* early, run_forever sleeps its interval, and a new pass is started later
\* unless the process is stopped from outside.
C10_ErrorsNeverFatal ==
    /\ [](exc # "none" =>
            (proc = "running" /\ pc = "idle" /\ "interval" \in slept))
    /\ [](exc # "none" => <>(OnWire("activities") \/ proc # "running"))

\* C10 witness: a pass ended early on an item without 'id'
C10_Witness ==
    /\ exc = "KeyError"
    /\ resp.ep = "api"
    /\ resp.out = "200"
    /\ Malformed(resp.body)
    /\ proc = "running"

\* a pass in which every request ended in 200 has run to "Cycle complete"
CleanPassDone == clean /\ pc = "idle" /\ "interval" \in slept /\ exc = "none"

C12_EveryMethodRetried ==
    [][ (pc = "http" /\ resp'.ep = "api" /\ resp'.out \in {"connect", "read", "500"}) =>
          IF req.left > 0
          THEN /\ pc' = "http"
               /\ req' = [req EXCEPT !.left = @ - 1]
               /\ sent' = req.kind
               /\ ret'.tag = "none"
          ELSE /\ ret'.tag = "raise"
               /\ exc' \in {"ConnectionError", "RetryError"} ]_vars

\* C13: a give-kudos request is on the wire for an activity on which the
\* remote side already holds the kudos only if an earlier process stopped
\* (killed or interrupted) between the successful give for that activity
\* and record_kudos_given.
C13_DuplicateOnlyAfterCrash ==
    (OnWire("give") /\ user_activity_id \in remote) => user_activity_id \in window

\* C14: with one of the four credentials absent from the environment no
\* process is running: a process started then has failed in __init__, it
\* runs no pass and has no request on the wire.
C14_MissingCredentialNoRun ==
    /\ env # Credentials => proc # "running"
    /\ proc # "running" => (pc = "done" /\ req = NoReq /\ sent = "none")

\* C14 witness: a process was started with three of the four credentials
\* and has failed
C14_Witness ==
    /\ proc = "failed"
    /\ Cardinality(env) = 3
    /\ pc = "done"
    /\ req = NoReq

\* every item of q is an activity of endorser u with a kudos-given mark
AllMarked(u, q) == \A i \in 1..Len(q) : <<u, q[i]>> \in kudos_given

\* the pass ended early in the last step, with activity pre.activity_id in hand
EndedEarly ==
    /\ exc # "none"
    /\ pre.activity_id # NoId
    /\ pre.activity_id \notin wrote.processed

\* C15: a processed mark is written for the activity in hand only, and only
\* in a step after which nothing of it is left to handle: its endorser list
\* came back empty, or no endorser is left and every candidate left of the
\* last endorser has a kudos-given mark (the last fetch was answered with a
\* list of marked activities or with 403, the last give failed or was
\* recorded).  While an activity is in hand it has no processed mark; when
\* the pass ends early it still has none, and a pass that lists it fetches
\* its endorsers.
C15_ProcessedOnlyWhenDone ==
    /\ wrote.processed # {} =>
          /\ wrote.processed = {pre.activity_id}
          /\ CASE resp.kind = "kudos" -> resp.out = "200" /\ resp.body = <<>>
               [] resp.kind = "uacts" ->
                     /\ resp.out \in {"200", "403"}
                     /\ pre.kudos = <<>>
                     /\ AllMarked(pre.user_id, resp.body)
               [] resp.kind = "give" ->
                     /\ ret.tag = "False"
                     /\ pre.kudos = <<>>
                     /\ AllMarked(pre.user_id, pre.user_activities)
               [] OTHER ->
                     /\ resp = NoResp
                     /\ wrote.given = {<<pre.user_id, pre.user_activity_id>>}
                     /\ pre.kudos = <<>>
                     /\ AllMarked(pre.user_id, pre.user_activities)
    /\ activity_id # NoId => activity_id \notin processed_activities
    /\ EndedEarly =>
          /\ pre.activity_id \notin processed_activities
          /\ LET c == NextActivity([Ctx EXCEPT !.activities = <<pre.activity_id>>])
             IN  c.pc = "http" /\ c.kind = "kudos" /\ c.activity_id = pre.activity_id

\* C15 witness: the last candidate of the last endorser was attempted and
\* failed, and the activity in hand got its processed mark
C15_Witness ==
    /\ resp.kind = "give"
    /\ ret.tag = "False"
    /\ pre.kudos = <<>>
    /\ wrote.processed = {pre.activity_id}
    /\ pre.activity_id \in processed_activities

\* C15, second case: the pass ended early on a failed refresh while an
\* endorser's activities were fetched, the activity in hand has no mark
C15_EndedEarlyReached ==
    /\ EndedEarly
    /\ exc = "RefreshFailed"
    /\ resp.kind = "uacts"
    /\ pre.activity_id \notin processed_activities

\* C16: the process is about to write a kudos-given mark only when the
\* last exchange was the give-kudos POST for user_activity_id answered 200
\* (give_kudos returned True) and no request has been sent since; the table
\* kudos_given changes only in that situation, by the one pair
\* (user_id, user_activity_id) of that give.
C16_MarkOnlyAfterSuccess ==
    /\ [](pc = "record" =>
            /\ resp.ep = "api" /\ resp.kind = "give" /\ resp.out = "200"
            /\ ret.tag = "True"
            /\ sent = "none" /\ req = NoReq
            /\ user_id = pre.user_id /\ user_activity_id = pre.user_activity_id
            /\ user_activity_id \in OwnedBy(user_id))
    /\ [][kudos_given' # kudos_given =>
            /\ pc = "record"
            /\ kudos_given' = kudos_given \cup {<<user_id, user_activity_id>>}
            /\ wrote'.given = {<<user_id, user_activity_id>>}]_vars

\* C16 witness: the mark of the give just answered 200 has been written
C16_Witness ==
    /\ resp = NoResp
    /\ wrote.given = {<<pre.user_id, pre.user_activity_id>>}
    /\ wrote.given \subseteq kudos_given
    /\ "pace" \in slept

\* C17: wherever the running process is (in a pass with a request on the
\* wire, before a write, or asleep between two passes) it is inside the try
\* block of run_forever and an interrupt can arrive; once the loop has
\* exited, no pass is in progress, no request is on the wire and the handle
\* of the ledger is closed.  (A process that ended by an exception is one
\* whose load_config failed: its handle was never closed by cleanup.)
C17_InterruptExitsAndCloses ==
    /\ proc = "running" => (InTryBlock /\ ENABLED (Interrupt /\ Unobserved))
    /\ proc = "exited" =>
          (~ conn_open /\ pc = "done" /\ req = NoReq /\ sent = "none")
    /\ proc = "failed" => conn_open

\* C17 witness: the process was interrupted after it had written marks;
\* the loop has exited and the ledger is closed
C17_Witness ==
    /\ proc = "exited"
    /\ ~ conn_open
    /\ pc = "done"
    /\ kudos_given # {}

\* C18: a call of make_api_request makes at most one token refresh and
\* re-issues its request at most once after it: a call that has refreshed
\* the token does not go to the token endpoint again.  (The bounded half of
\* the claim; with it, the call ends once the 429 answers stop.)
C18_OneRefreshPerCall ==
    /\ refreshes <= 1
    /\ pc = "refresh" => refreshes = 0

\* C19: within one pass give_kudos is called at most once for an endorser
\* activity, whatever the outcome of the first call.
C19_OneAttemptPerPass == retried = {}

====
